---------------------------- MODULE Spec2Model ----------------------------
(***************************************************************************)
(* State-machine model of firecracker_cli.py: one invocation of the CLI at *)
(* a time acts on the host (control-channel files, the tap interface, the  *)
(* two iptables chains, the forwarding flag, the process table).  Every    *)
(* run_command call, os.remove, Popen and signal of the source is one step *)
(* of the model; the steps of one invocation are recorded in `log`.        *)
(***************************************************************************)
EXTENDS Integers, Sequences, FiniteSets, TLC

(* ---------------------------- bounds ----------------------------------- *)

\* setup_networking is not started once a chain holds this many of its rules
MaxSetups == 3

\* at most this many VM processes of this tool are alive on the host at once
MaxVMs == 1

\* at most this many required host commands fail for a reason of the host's
MaxFaults == 1

(* ------------------------- program constants --------------------------- *)

\* firecracker_process.wait(timeout=5)
GracePeriod == 5

DefaultSocketPath == "/tmp/firecracker.socket"
CustomSocketPath == "/run/vm.socket"
Paths == {DefaultSocketPath, CustomSocketPath}

DefaultTapDevice == "tap0"

\* what the operator passes for --socket-path and --tap-device: nothing, or
\* a path and a device of their own
CliOptions ==
    { [socket_path |-> DefaultSocketPath, tap_device |-> DefaultTapDevice],
      [socket_path |-> CustomSocketPath, tap_device |-> "tap1"] }

(* ----------------------------- the host -------------------------------- *)

\* Process identifiers.  SelfPid is the running CLI; VmPids are the pids the
\* host gives to the firecracker processes this tool spawns; ForeignPid is a
\* firecracker bound to another channel.
SelfPid == 100
ForeignPid == 99
VmPids == {SelfPid + i : i \in 1..MaxVMs}

NoFile == [kind |-> "none", mode |-> 0, fresh |-> FALSE]

\* the routing tables `ip route` may print: lines of tokens
RoutesWithDefault ==
    << <<"default", "via", "10.0.0.1", "dev", "eth0">>,
       <<"10.0.0.0/24", "dev", "eth0">> >>
RoutesNoDefault == << <<"10.0.0.0/24", "dev", "eth0">> >>
RoutesTwoDefaults ==
    << <<"192.168.7.0/24", "dev", "wlan0">>,
       <<"default", "via", "192.168.7.1", "dev", "wlan0", "metric", "100">>,
       <<"default", "via", "10.0.0.1", "dev", "eth0", "metric", "200">> >>
RouteTables == {RoutesWithDefault, RoutesNoDefault, RoutesTwoDefaults}

\* the configuration files --config-file may name: missing, not JSON, or a
\* document whose "network-interfaces" lists these host_dev_name values
NoIfaces == <<>>
NoDisk == [state |-> "missing", ifaces |-> NoIfaces]
\* before start_microvm has looked at the file
Unread == [state |-> "unread", ifaces |-> NoIfaces]
ConfigFiles ==
    { NoDisk,
      [state |-> "invalid", ifaces |-> NoIfaces],
      [state |-> "ok", ifaces |-> <<"tap0", "tap7">>] }

VARIABLES
    cliopts,        \* --socket-path and --tap-device the operator passes
    host,           \* kernel and filesystem state
    disk,           \* the file --config-file names, as start_microvm found it
    config,         \* the global Config object
    euid,           \* effective uid of the invocation
    cmd,            \* the CLI command running, "none" between invocations
    plan,           \* functions the command has still to call
    status,         \* "idle", "running" or "exited"
    fn,             \* function executing, or the one the invocation ended in
    step,           \* position inside fn
    exitCode,       \* exit status of the invocation
    died,           \* why the invocation was terminated, "" if it was not
    faulted,        \* the host failed a command of this invocation
    faults,         \* number of such failures so far
    default_iface,  \* local of setup_networking
    routes,         \* local of setup_networking: result.stdout of `ip route`
    psout,          \* lines of `ps aux` stop_microvm has still to read
    vm_config,      \* local of start_microvm: the parsed, patched document
    handle,         \* firecracker_process: pid of the child, 0 when none
    child,          \* what the child process was given
    waited,         \* time units spent in wait(timeout=5)
    log,            \* what the invocation did, in order
    entry,          \* host at the start of the invocation
    prev            \* the command that ran to its end just before, if any

vars == << cliopts, host, disk, config, euid, cmd, plan, status, fn, step,
           exitCode, died, faulted, faults, default_iface, routes, psout,
           vm_config, handle, child, waited, log, entry, prev >>

(* ------------------------- host commands ------------------------------- *)

\* A command line is its text, with % where the one argument that varies
\* goes, and that argument.
NoOut == <<>>
NoRoutes == <<>>

Result(h, rc, out) == [h |-> h, rc |-> rc, out |-> out]

\* the `ps aux` listing: one line per live process, by pid
RECURSIVE SortedPids(_)
SortedPids(S) ==
    IF S = {} THEN <<>>
    ELSE LET m == CHOOSE x \in S : \A y \in S : x <= y
         IN <<m>> \o SortedPids(S \ {m})

PsListing(h) == SortedPids(h.procs \cup {SelfPid})

\* the command line `ps aux` shows for a process
ProcLine(pid) ==
    IF pid = SelfPid
    THEN <<"python3", "firecracker_cli.py">>
         \o (IF cliopts.socket_path = DefaultSocketPath
             THEN <<>> ELSE <<"--socket-path", cliopts.socket_path>>)
         \o <<cmd>>
    ELSE IF pid = ForeignPid
    THEN <<"firecracker", "--api-sock", "/run/other.socket">>
    ELSE <<"firecracker", "--api-sock", cliopts.socket_path,
           "--config-file", "vm-config.json">>

\* `needle in token` for the tokens of the model
Contains(token, needle) ==
    \/ token = needle
    \/ needle = "firecracker"
       /\ token \in {"firecracker_cli.py", DefaultSocketPath}

\* `needle in line`
InLine(needle, line) == \E i \in DOMAIN line : Contains(line[i], needle)

\* What the host does with one command line; rt is its routing table.
Exec(c, h, rt) ==
    CASE c[1] = "ip tuntap add % mode tap" ->
            IF h.tap = "absent"
            THEN Result([h EXCEPT !.tap = "down"], 0, NoOut)
            ELSE Result(h, 1, NoOut)
      [] c[1] = "ip link set % up" ->
            IF h.tap = "absent"
            THEN Result(h, 1, NoOut)
            ELSE Result([h EXCEPT !.tap = "up"], 0, NoOut)
      [] c[1] = "ip addr add 192.168.1.1/24 dev %" ->
            IF h.tap = "absent" THEN Result(h, 1, NoOut)
            ELSE IF h.addr THEN Result(h, 2, NoOut)
            ELSE Result([h EXCEPT !.addr = TRUE], 0, NoOut)
      [] c[1] = "ip link delete %" ->
            IF h.tap = "absent" THEN Result(h, 1, NoOut)
            ELSE Result([h EXCEPT !.tap = "absent", !.addr = FALSE], 0, NoOut)
      [] c[1] = "ip route" -> Result(h, 0, rt)
      [] c[1] = "sysctl -w net.ipv4.ip_forward=1" ->
            Result([h EXCEPT !.ip_forward = 1], 0, NoOut)
      [] c[1] = "iptables -t nat -N FIRECRACKER-NAT" ->
            IF h.nat = -1
            THEN Result([h EXCEPT !.nat = 0], 0, NoOut)
            ELSE Result(h, 1, NoOut)
      [] c[1] = "iptables -t nat -A FIRECRACKER-NAT -o % -j MASQUERADE" ->
            IF h.nat = -1 THEN Result(h, 1, NoOut)
            ELSE Result([h EXCEPT !.nat = @ + 1], 0, NoOut)
      [] c[1] = "iptables -t nat -A POSTROUTING -j FIRECRACKER-NAT" ->
            IF h.nat = -1 THEN Result(h, 2, NoOut)
            ELSE Result([h EXCEPT !.postrouting = @ + 1], 0, NoOut)
      [] c[1] = "iptables -t nat -D POSTROUTING -j FIRECRACKER-NAT" ->
            IF h.postrouting = 0 THEN Result(h, 1, NoOut)
            ELSE Result([h EXCEPT !.postrouting = @ - 1], 0, NoOut)
      [] c[1] = "iptables -t nat -F FIRECRACKER-NAT" ->
            IF h.nat = -1 THEN Result(h, 1, NoOut)
            ELSE Result([h EXCEPT !.nat = 0], 0, NoOut)
      [] c[1] = "iptables -t nat -X FIRECRACKER-NAT" ->
            IF h.nat = 0 /\ h.postrouting = 0
            THEN Result([h EXCEPT !.nat = -1], 0, NoOut)
            ELSE Result(h, 1, NoOut)
      [] c[1] = "iptables -N FIRECRACKER-FORWARD" ->
            IF h.fwd = -1
            THEN Result([h EXCEPT !.fwd = 0], 0, NoOut)
            ELSE Result(h, 1, NoOut)
      [] c[1] \in {"iptables -A FIRECRACKER-FORWARD -i % -j ACCEPT",
                   "iptables -A FIRECRACKER-FORWARD -o % -j ACCEPT"} ->
            IF h.fwd = -1 THEN Result(h, 1, NoOut)
            ELSE Result([h EXCEPT !.fwd = @ + 1], 0, NoOut)
      [] c[1] = "iptables -A FORWARD -j FIRECRACKER-FORWARD" ->
            IF h.fwd = -1 THEN Result(h, 2, NoOut)
            ELSE Result([h EXCEPT !.forward = @ + 1], 0, NoOut)
      [] c[1] = "iptables -D FORWARD -j FIRECRACKER-FORWARD" ->
            IF h.forward = 0 THEN Result(h, 1, NoOut)
            ELSE Result([h EXCEPT !.forward = @ - 1], 0, NoOut)
      [] c[1] = "iptables -F FIRECRACKER-FORWARD" ->
            IF h.fwd = -1 THEN Result(h, 1, NoOut)
            ELSE Result([h EXCEPT !.fwd = 0], 0, NoOut)
      [] c[1] = "iptables -X FIRECRACKER-FORWARD" ->
            IF h.fwd = 0 /\ h.forward = 0
            THEN Result([h EXCEPT !.fwd = -1], 0, NoOut)
            ELSE Result(h, 1, NoOut)
      [] c[1] = "mkfifo %" ->
            IF h.files[c[2]].kind # "none" THEN Result(h, 1, NoOut)
            ELSE Result([h EXCEPT !.files[c[2]] =
                            [kind |-> "fifo", mode |-> 644, fresh |-> TRUE]],
                        0, NoOut)
      [] c[1] = "chmod 660 %" ->
            IF h.files[c[2]].kind = "none" THEN Result(h, 1, NoOut)
            ELSE Result([h EXCEPT !.files[c[2]].mode = 660], 0, NoOut)
      [] c[1] = "ps aux" -> Result(h, 0, PsListing(h))
      [] c[1] = "kill -9 %" ->
            LET hit == {p \in h.procs \cup {SelfPid} : ToString(p) = c[2]}
            IN IF hit = {} THEN Result(h, 1, NoOut)
               ELSE Result([h EXCEPT !.procs = @ \ hit], 0, NoOut)

(* --------------------------- run_command ------------------------------- *)

Event(k, c, rc) == [f |-> fn, k |-> k, c |-> c, rc |-> rc]

\* run_command, lines 94-108: subprocess.run raises FileNotFoundError when
\* the executable is not found; run_command catches CalledProcessError
\* only, so the exception ends the invocation with a traceback and exit
\* code 1 whatever check is.  No process has run and there is no exit code
\* (rc -1).
NotFound(c, h) ==
    [h |-> h, rc |-> -1, out |-> NoOut, exit |-> TRUE, why |-> "notfound",
     ev |-> Event("notfound", c, -1)]

\* run_command that ends the invocation on every non-zero exit
RunCommandStrict(c, check, h, rt, fault) ==
    IF config.dry_run
    THEN [h |-> h, rc |-> 0, out |-> NoOut, exit |-> FALSE,
          why |-> "", ev |-> Event("dry", c, 0)]
    ELSE IF fault = "missing" THEN NotFound(c, h)
    ELSE LET r == IF fault = "fail" THEN Result(h, 1, NoOut)
                  ELSE Exec(c, h, rt)
         IN [h |-> r.h, rc |-> r.rc, out |-> r.out,
             exit |-> r.rc # 0, why |-> "command",
             ev |-> Event("exec", c, r.rc)]

\* run_command that undoes the interface when a required command fails
RunCommandRollback(c, check, h, rt, fault) ==
    IF config.dry_run
    THEN [h |-> h, rc |-> 0, out |-> NoOut, exit |-> FALSE,
          why |-> "", ev |-> Event("dry", c, 0)]
    ELSE IF fault = "missing" THEN NotFound(c, h)
    ELSE LET r == IF fault = "fail" THEN Result(h, 1, NoOut)
                  ELSE Exec(c, h, rt)
             failed == check /\ r.rc # 0
         IN [h |-> IF failed
                   THEN [r.h EXCEPT !.tap = "absent", !.addr = FALSE]
                   ELSE r.h,
             rc |-> r.rc, out |-> r.out,
             exit |-> failed, why |-> "command",
             ev |-> Event("exec", c, r.rc)]

\* run_command whose dry-run branch is taken for check=True only
RunCommandDryChecked(c, check, h, rt, fault) ==
    IF config.dry_run /\ check
    THEN [h |-> h, rc |-> 0, out |-> NoOut, exit |-> FALSE,
          why |-> "", ev |-> Event("dry", c, 0)]
    ELSE IF fault = "missing" THEN NotFound(c, h)
    ELSE LET r == IF fault = "fail" THEN Result(h, 1, NoOut)
                  ELSE Exec(c, h, rt)
         IN [h |-> r.h, rc |-> r.rc, out |-> r.out,
             exit |-> check /\ r.rc # 0, why |-> "command",
             ev |-> Event("exec", c, r.rc)]

\* run_command(cmd, check): under dry-run the command is reported and a mock
\* result returned; otherwise it is executed, and a non-zero exit with
\* check=True ends the invocation.  `fault` is what the host does to the
\* command for a reason of its own: "fail" is exit code 1 with nothing
\* changed, "missing" is the executable not being found.
RunCommand(c, check, h, rt, fault) ==
    IF config.dry_run
    THEN [h |-> h, rc |-> 0, out |-> NoOut, exit |-> FALSE,
          why |-> "", ev |-> Event("dry", c, 0)]
    ELSE IF fault = "missing" THEN NotFound(c, h)
    ELSE LET r == IF fault = "fail" THEN Result(h, 1, NoOut)
                  ELSE Exec(c, h, rt)
         IN [h |-> r.h, rc |-> r.rc, out |-> r.out,
             exit |-> check /\ r.rc # 0, why |-> "command",
             ev |-> Event("exec", c, r.rc)]

\* the executable a command line names first
Executable(c) ==
    CASE c[1] \in {"ip tuntap add % mode tap", "ip link set % up",
                   "ip addr add 192.168.1.1/24 dev %", "ip link delete %",
                   "ip route"} -> "ip"
      [] c[1] = "sysctl -w net.ipv4.ip_forward=1" -> "sysctl"
      [] c[1] = "mkfifo %" -> "mkfifo"
      [] c[1] = "chmod 660 %" -> "chmod"
      [] c[1] = "ps aux" -> "ps"
      [] c[1] = "kill -9 %" -> "kill"
      [] OTHER -> "iptables"

\* the executables the host may lack
Missable == {"iptables"}

\* an executable is found or not for the whole invocation: the first
\* command that names it decides
FirstUse(c) ==
    \A i \in DOMAIN log : Executable(log[i].c) # Executable(c)

\* what the host may do to command c: a failure of its own for the
\* commands that must succeed, a missing executable whatever check is
Faults(c, check) ==
    IF ~config.dry_run /\ faults < MaxFaults
    THEN {"none"}
         \cup (IF check THEN {"fail"} ELSE {})
         \cup (IF Executable(c) \in Missable /\ FirstUse(c)
               THEN {"missing"} ELSE {})
    ELSE {"none"}

Count(fault) == IF fault # "none" THEN faults + 1 ELSE faults

(* ------------------------- command tables ------------------------------ *)

Cmd(text, arg, check) == [c |-> <<text, arg>>, check |-> check]

\* setup_networking whose address assignment must succeed
SetupCommandsStrictAddr(dev, iface) ==
    << Cmd("ip tuntap add % mode tap", dev, FALSE),
       Cmd("ip link set % up", dev, TRUE),
       Cmd("ip addr add 192.168.1.1/24 dev %", dev, TRUE),
       Cmd("sysctl -w net.ipv4.ip_forward=1", "", TRUE),
       Cmd("ip route", "", TRUE),
       Cmd("iptables -t nat -N FIRECRACKER-NAT", "", FALSE),
       Cmd("iptables -t nat -A FIRECRACKER-NAT -o % -j MASQUERADE", iface,
           TRUE),
       Cmd("iptables -t nat -A POSTROUTING -j FIRECRACKER-NAT", "", TRUE),
       Cmd("iptables -N FIRECRACKER-FORWARD", "", FALSE),
       Cmd("iptables -A FIRECRACKER-FORWARD -i % -j ACCEPT",
           dev, TRUE),
       Cmd("iptables -A FIRECRACKER-FORWARD -o % -j ACCEPT",
           dev, TRUE),
       Cmd("iptables -A FORWARD -j FIRECRACKER-FORWARD", "", TRUE) >>

\* setup_networking, lines 150-186, for tap device dev
SetupCommandsFor(dev, iface) ==
    << Cmd("ip tuntap add % mode tap", dev, FALSE),
       Cmd("ip link set % up", dev, TRUE),
       Cmd("ip addr add 192.168.1.1/24 dev %", dev, FALSE),
       Cmd("sysctl -w net.ipv4.ip_forward=1", "", TRUE),
       Cmd("ip route", "", TRUE),
       Cmd("iptables -t nat -N FIRECRACKER-NAT", "", FALSE),
       Cmd("iptables -t nat -A FIRECRACKER-NAT -o % -j MASQUERADE", iface,
           TRUE),
       Cmd("iptables -t nat -A POSTROUTING -j FIRECRACKER-NAT", "", TRUE),
       Cmd("iptables -N FIRECRACKER-FORWARD", "", FALSE),
       Cmd("iptables -A FIRECRACKER-FORWARD -i % -j ACCEPT",
           dev, TRUE),
       Cmd("iptables -A FIRECRACKER-FORWARD -o % -j ACCEPT",
           dev, TRUE),
       Cmd("iptables -A FORWARD -j FIRECRACKER-FORWARD", "", TRUE) >>

SetupCommands(iface) == SetupCommandsFor(config.tap_device, iface)

\* position of `ip route` in SetupCommands
RouteStep == 5

\* cleanup_networking with the unlink from POSTROUTING required to succeed
CleanupCommandsStrict ==
    << Cmd("ip link delete %", config.tap_device, FALSE),
       Cmd("iptables -t nat -D POSTROUTING -j FIRECRACKER-NAT", "", TRUE),
       Cmd("iptables -t nat -F FIRECRACKER-NAT", "", FALSE),
       Cmd("iptables -t nat -X FIRECRACKER-NAT", "", FALSE),
       Cmd("iptables -D FORWARD -j FIRECRACKER-FORWARD", "", FALSE),
       Cmd("iptables -F FIRECRACKER-FORWARD", "", FALSE),
       Cmd("iptables -X FIRECRACKER-FORWARD", "", FALSE) >>

\* cleanup_networking, lines 197-206, for tap device dev
CleanupCommandsFor(dev) ==
    << Cmd("ip link delete %", dev, FALSE),
       Cmd("iptables -t nat -D POSTROUTING -j FIRECRACKER-NAT", "", FALSE),
       Cmd("iptables -t nat -F FIRECRACKER-NAT", "", FALSE),
       Cmd("iptables -t nat -X FIRECRACKER-NAT", "", FALSE),
       Cmd("iptables -D FORWARD -j FIRECRACKER-FORWARD", "", FALSE),
       Cmd("iptables -F FIRECRACKER-FORWARD", "", FALSE),
       Cmd("iptables -X FIRECRACKER-FORWARD", "", FALSE) >>

CleanupCommands == CleanupCommandsFor(config.tap_device)

\* lines 166-171: the device after "dev" on the first line containing
\* "default"; "None" when no line does.  A default line without a token
\* after "dev" raises (ValueError or IndexError).
Min(S) == CHOOSE x \in S : \A y \in S : x <= y

\* the loop without its break: the last line with "default" wins
ParseDefaultIfaceLast(lines) ==
    LET hits == {i \in DOMAIN lines : InLine("default", lines[i])}
        Max(S) == CHOOSE x \in S : \A y \in S : x >= y
    IN IF hits = {} THEN [iface |-> "None", raised |-> FALSE]
       ELSE LET parts == lines[Max(hits)]
                devs == {j \in DOMAIN parts : parts[j] = "dev"}
            IN IF devs = {} \/ Min(devs) = Len(parts)
               THEN [iface |-> "None", raised |-> TRUE]
               ELSE [iface |-> parts[Min(devs) + 1], raised |-> FALSE]

\* lines 166-171
ParseDefaultIface(lines) ==
    LET hits == {i \in DOMAIN lines : InLine("default", lines[i])}
    IN IF hits = {} THEN [iface |-> "None", raised |-> FALSE]
       ELSE LET parts == lines[Min(hits)]
                devs == {j \in DOMAIN parts : parts[j] = "dev"}
            IN IF devs = {} \/ Min(devs) = Len(parts)
               THEN [iface |-> "None", raised |-> TRUE]
               ELSE [iface |-> parts[Min(devs) + 1], raised |-> FALSE]

(* ------------------------------ Init ----------------------------------- *)

\* Config.__init__, lines 23-30
DefaultConfig ==
    [socket_path |-> DefaultSocketPath, tap_device |-> DefaultTapDevice,
     dry_run |-> FALSE]

NoChild == [pid |-> 0, sock |-> "", ifaces |-> NoIfaces]

CleanHost ==
    [tap |-> "absent", addr |-> FALSE, ip_forward |-> 0,
     nat |-> -1, postrouting |-> 0, fwd |-> -1, forward |-> 0,
     files |-> [p \in Paths |-> NoFile], procs |-> {ForeignPid}]

\* the pipe an earlier activate_socket has left, lines 125-126
LeftFifo == [kind |-> "fifo", mode |-> 660, fresh |-> FALSE]

\* the hosts the first invocation may find: a clean one, or one where an
\* earlier run under the default options has left its channel file
InitialHosts ==
    {CleanHost, [CleanHost EXCEPT !.files[DefaultSocketPath] = LeftFifo]}

Init ==
    /\ cliopts \in CliOptions
    /\ host \in InitialHosts
    /\ disk = Unread
    /\ config = DefaultConfig
    /\ euid = 0
    /\ cmd = "none"
    /\ plan = <<>>
    /\ status = "idle"
    /\ fn = ""
    /\ step = 0
    /\ exitCode = 0
    /\ died = ""
    /\ faulted = FALSE
    /\ faults = 0
    /\ default_iface = "None"
    /\ routes = NoRoutes
    /\ psout = <<>>
    /\ vm_config = NoIfaces
    /\ handle = 0
    /\ child = NoChild
    /\ waited = 0
    /\ log = <<>>
    /\ entry = host
    /\ prev = ""

(* --------------------------- control flow ------------------------------ *)

Commands ==
    {"activate", "deactivate", "net-up", "net-down", "start", "stop",
     "setup", "teardown"}

\* the commands with teardown undoing setup in mirrored order
PlanMirrored(c, h) ==
    CASE c = "activate" -> <<"activate_socket">>
      [] c = "deactivate" -> <<"deactivate_socket">>
      [] c = "net-up" -> <<"setup_networking">>
      [] c = "net-down" -> <<"cleanup_networking">>
      [] c = "start" ->
            (IF h.files[DefaultSocketPath].kind = "none"
             THEN <<"activate_socket">> ELSE <<>>) \o <<"start_microvm">>
      [] c = "stop" -> <<"stop_microvm">>
      [] c = "setup" ->
            <<"setup_networking", "activate_socket", "start_microvm">>
      [] c = "teardown" ->
            <<"stop_microvm", "deactivate_socket", "cleanup_networking">>

\* the commands with setup activating the channel before the network is up
PlanChannelFirst(c, h) ==
    CASE c = "activate" -> <<"activate_socket">>
      [] c = "deactivate" -> <<"deactivate_socket">>
      [] c = "net-up" -> <<"setup_networking">>
      [] c = "net-down" -> <<"cleanup_networking">>
      [] c = "start" ->
            (IF h.files[DefaultSocketPath].kind = "none"
             THEN <<"activate_socket">> ELSE <<>>) \o <<"start_microvm">>
      [] c = "stop" -> <<"stop_microvm">>
      [] c = "setup" ->
            <<"activate_socket", "setup_networking", "start_microvm">>
      [] c = "teardown" ->
            <<"stop_microvm", "cleanup_networking", "deactivate_socket">>

\* the functions each command calls, lines 362-424; cmd_start activates the
\* channel when nothing exists at the literal path "/tmp/firecracker.socket"
Plan(c, h) ==
    CASE c = "activate" -> <<"activate_socket">>
      [] c = "deactivate" -> <<"deactivate_socket">>
      [] c = "net-up" -> <<"setup_networking">>
      [] c = "net-down" -> <<"cleanup_networking">>
      [] c = "start" ->
            (IF h.files[DefaultSocketPath].kind = "none"
             THEN <<"activate_socket">> ELSE <<>>) \o <<"start_microvm">>
      [] c = "stop" -> <<"stop_microvm">>
      [] c = "setup" ->
            <<"setup_networking", "activate_socket", "start_microvm">>
      [] c = "teardown" ->
            <<"stop_microvm", "cleanup_networking", "deactivate_socket">>

\* setup_networking and cleanup_networking begin with check_root (step 0)
FirstStep(f) ==
    IF f \in {"setup_networking", "cleanup_networking"} THEN 0 ELSE 1

\* the commands that reach check_root and so read the effective uid
ReadsEuid(c) == c \in {"net-up", "net-down", "setup", "teardown"}

At(f, k) == status = "running" /\ fn = f /\ step = k

\* the function returns: the command calls the next one, or ends with 0
Return ==
    IF plan = <<>>
    THEN /\ status' = "exited"
         /\ exitCode' = 0
         /\ UNCHANGED <<fn, step, plan, died>>
    ELSE /\ fn' = Head(plan)
         /\ step' = FirstStep(Head(plan))
         /\ plan' = Tail(plan)
         /\ UNCHANGED <<status, exitCode, died>>

\* sys.exit(code), an uncaught exception or a fatal signal
Exit(code, why) ==
    /\ status' = "exited"
    /\ exitCode' = code
    /\ died' = why
    /\ UNCHANGED <<fn, step, plan>>

Goto(k) ==
    /\ step' = k
    /\ UNCHANGED <<status, fn, plan, exitCode, died>>

NetRoom(h) ==
    /\ h.nat < MaxSetups
    /\ h.postrouting < MaxSetups
    /\ h.fwd < 2 * MaxSetups
    /\ h.forward < MaxSetups

\* cli(), lines 325-352, and the dispatch to the command
Invoke(c, dry, uid) ==
    /\ status = "idle"
    /\ c \in {"net-up", "setup"} => NetRoom(host)
    /\ c \in {"start", "setup"} => Cardinality(host.procs \cap VmPids) < MaxVMs
    /\ ReadsEuid(c) \/ uid = 0
    /\ disk' = Unread
    /\ cmd' = c
    /\ config' = [socket_path |-> cliopts.socket_path,
                  tap_device |-> cliopts.tap_device, dry_run |-> dry]
    /\ euid' = uid
    /\ status' = "running"
    /\ fn' = Head(Plan(c, host))
    /\ step' = FirstStep(Head(Plan(c, host)))
    /\ plan' = Tail(Plan(c, host))
    /\ UNCHANGED <<cliopts, host, exitCode, died, faulted, faults,
                   default_iface, routes, psout, vm_config, handle, child,
                   waited, log, entry, prev>>

\* the commands whose repetition is followed: what the next invocation
\* comes right after, when the command ran to its end and for real
Repeatable == {"net-down"}

Completed ==
    IF cmd \in Repeatable /\ exitCode = 0 /\ died = "" /\ ~config.dry_run
    THEN cmd ELSE ""

\* the process of the invocation is gone; files it made are no longer new
Finish ==
    /\ status = "exited"
    /\ prev' = Completed
    /\ host' = [host EXCEPT
                  !.files = [p \in Paths |-> [@[p] EXCEPT !.fresh = FALSE]]]
    /\ entry' = host'
    /\ disk' = Unread
    /\ config' = DefaultConfig
    /\ euid' = 0
    /\ cmd' = "none"
    /\ plan' = <<>>
    /\ status' = "idle"
    /\ fn' = ""
    /\ step' = 0
    /\ exitCode' = 0
    /\ died' = ""
    /\ faulted' = FALSE
    /\ default_iface' = "None"
    /\ routes' = NoRoutes
    /\ psout' = <<>>
    /\ vm_config' = NoIfaces
    /\ handle' = 0
    /\ child' = NoChild
    /\ waited' = 0
    /\ log' = <<>>
    /\ UNCHANGED <<cliopts, faults>>

(* ------------------------- network provisioner ------------------------- *)

\* check_root that lets every user through
CheckRootLax ==
    /\ status = "running"
    /\ fn \in {"setup_networking", "cleanup_networking"}
    /\ step = 0
    /\ Goto(1)
    /\ UNCHANGED <<cliopts, host, disk, config, euid, cmd, faulted, faults,
                   default_iface, routes, psout, vm_config, handle, child,
                   waited, log, entry, prev>>

\* check_root, lines 111-115
CheckRoot ==
    /\ status = "running"
    /\ fn \in {"setup_networking", "cleanup_networking"}
    /\ step = 0
    /\ IF euid # 0 THEN Exit(1, "root") ELSE Goto(1)
    /\ UNCHANGED <<cliopts, host, disk, config, euid, cmd, faulted, faults,
                   default_iface, routes, psout, vm_config, handle, child,
                   waited, log, entry, prev>>

\* setup_networking, lines 148-188: one run_command per step; the step that
\* reads the routes also picks default_iface or ends the invocation
SetupNetworking ==
    /\ status = "running"
    /\ fn = "setup_networking"
    /\ step \in 1..Len(SetupCommands(default_iface))
    /\ LET k == SetupCommands(default_iface)[step]
       IN \E fault \in Faults(k.c, k.check),
             rt \in IF step = RouteStep THEN RouteTables ELSE {NoRoutes} :
            LET r == RunCommand(k.c, k.check, host, rt, fault)
                parsed == ParseDefaultIface(r.out)
            IN /\ host' = r.h
               /\ log' = Append(log, r.ev)
               /\ faulted' = (faulted \/ fault # "none")
               /\ faults' = Count(fault)
               /\ routes' = IF step = RouteStep THEN r.out ELSE routes
               /\ default_iface' =
                    IF step = RouteStep /\ ~r.exit
                    THEN parsed.iface ELSE default_iface
               /\ IF r.exit THEN Exit(1, r.why)
                  ELSE IF step = RouteStep /\ parsed.raised
                  THEN Exit(1, "error")
                  ELSE IF step = RouteStep /\ parsed.iface = "None"
                  THEN Exit(1, "noroute")
                  ELSE IF step = Len(SetupCommands(default_iface))
                  THEN Return
                  ELSE Goto(step + 1)
    /\ UNCHANGED <<cliopts, disk, config, euid, cmd, psout, vm_config,
                   handle, child, waited, entry, prev>>

\* cleanup_networking, lines 196-208
CleanupNetworking ==
    /\ status = "running"
    /\ fn = "cleanup_networking"
    /\ step \in 1..Len(CleanupCommands)
    /\ LET k == CleanupCommands[step]
       IN \E fault \in Faults(k.c, k.check) :
            LET r == RunCommand(k.c, k.check, host, NoRoutes, fault)
            IN /\ host' = r.h
               /\ log' = Append(log, r.ev)
               /\ faulted' = (faulted \/ fault # "none")
               /\ faults' = Count(fault)
               /\ IF r.exit THEN Exit(1, r.why)
                  ELSE IF step = Len(CleanupCommands) THEN Return
                  ELSE Goto(step + 1)
    /\ UNCHANGED <<cliopts, disk, config, euid, cmd, default_iface, routes,
                   psout, vm_config, handle, child, waited, entry, prev>>

(* ----------------------- control channel manager ----------------------- *)

Exists(h, path) == h.files[path].kind # "none"

\* os.remove that leaves the file in place
RemoveNothing(h, path) == h

\* os.remove of the literal default path instead of the configured one
RemoveDefaultPath(h, path) == [h EXCEPT !.files[DefaultSocketPath] = NoFile]

\* os.remove(path)
Remove(h, path) == [h EXCEPT !.files[path] = NoFile]

Removed(path) == Event("remove", <<"os.remove %", path>>, 0)

\* activate_socket, lines 122-124: a file at the path is removed
ActivateRemove ==
    /\ At("activate_socket", 1)
    /\ IF Exists(host, config.socket_path)
       THEN /\ host' = Remove(host, config.socket_path)
            /\ log' = Append(log, Removed(config.socket_path))
       ELSE UNCHANGED <<host, log>>
    /\ Goto(2)
    /\ UNCHANGED <<cliopts, disk, config, euid, cmd, faulted, faults,
                   default_iface, routes, psout, vm_config, handle, child,
                   waited, entry, prev>>

\* activate_socket, line 127
ActivateMkfifo ==
    /\ At("activate_socket", 2)
    /\ \E fault \in Faults(<<"mkfifo %", config.socket_path>>, TRUE) :
         LET r == RunCommand(<<"mkfifo %", config.socket_path>>, TRUE, host,
                             NoRoutes, fault)
         IN /\ host' = r.h
            /\ log' = Append(log, r.ev)
            /\ faulted' = (faulted \/ fault # "none")
            /\ faults' = Count(fault)
            /\ IF r.exit THEN Exit(1, r.why) ELSE Goto(3)
    /\ UNCHANGED <<cliopts, disk, config, euid, cmd, default_iface, routes,
                   psout, vm_config, handle, child, waited, entry, prev>>

\* activate_socket, lines 128-130
ActivateChmod ==
    /\ At("activate_socket", 3)
    /\ \E fault \in Faults(<<"chmod 660 %", config.socket_path>>, TRUE) :
         LET r == RunCommand(<<"chmod 660 %", config.socket_path>>, TRUE, host,
                             NoRoutes, fault)
         IN /\ host' = r.h
            /\ log' = Append(log, r.ev)
            /\ faulted' = (faulted \/ fault # "none")
            /\ faults' = Count(fault)
            /\ IF r.exit THEN Exit(1, r.why) ELSE Return
    /\ UNCHANGED <<cliopts, disk, config, euid, cmd, default_iface, routes,
                   psout, vm_config, handle, child, waited, entry, prev>>

\* deactivate_socket, lines 133-140
DeactivateSocket ==
    /\ At("deactivate_socket", 1)
    /\ IF Exists(host, config.socket_path)
       THEN /\ host' = Remove(host, config.socket_path)
            /\ log' = Append(log, Removed(config.socket_path))
       ELSE UNCHANGED <<host, log>>
    /\ Return
    /\ UNCHANGED <<cliopts, disk, config, euid, cmd, faulted, faults,
                   default_iface, routes, psout, vm_config, handle, child,
                   waited, entry, prev>>

(* ------------------------------ stop ----------------------------------- *)

\* line 274
Matches(pid) ==
    /\ InLine("firecracker", ProcLine(pid))
    /\ InLine(config.socket_path, ProcLine(pid))

\* the orders in which the host may list the processes: the CLI's own
\* process among the others by pid, or after them all
Listings(out) ==
    LET others == SelectSeq(out, LAMBDA pid : pid # SelfPid)
    IN IF Len(others) = Len(out) THEN {out}
       ELSE {out, Append(others, SelfPid)}

\* stop_microvm, line 272: the process listing is read
StopList ==
    /\ At("stop_microvm", 1)
    /\ \E fault \in Faults(<<"ps aux", "">>, TRUE) :
         LET r == RunCommand(<<"ps aux", "">>, TRUE, host, NoRoutes, fault)
         IN /\ host' = r.h
            /\ log' = Append(log, r.ev)
            /\ faulted' = (faulted \/ fault # "none")
            /\ faults' = Count(fault)
            /\ psout' \in Listings(r.out)
            /\ IF r.exit THEN Exit(1, r.why)
               ELSE IF r.out = <<>> THEN Goto(3)
               ELSE Goto(2)
    /\ UNCHANGED <<cliopts, disk, config, euid, cmd, default_iface, routes,
                   vm_config, handle, child, waited, entry, prev>>

\* stop_microvm, lines 273-278: one line of the listing; a matching process
\* is killed by the pid its line shows.  kill -9 of the CLI's own pid ends
\* the invocation there.
StopScan ==
    /\ At("stop_microvm", 2)
    /\ psout # <<>>
    /\ LET pid == Head(psout)
       IN /\ psout' = Tail(psout)
          /\ IF Matches(pid)
             THEN \E fault \in Faults(<<"kill -9 %", ToString(pid)>>, FALSE) :
                    LET r == RunCommand(<<"kill -9 %", ToString(pid)>>,
                                        FALSE, host, NoRoutes, fault)
                    IN /\ host' = r.h
                       /\ log' = Append(log, r.ev)
                       /\ faulted' = (faulted \/ fault # "none")
                       /\ faults' = Count(fault)
                       /\ IF r.exit THEN Exit(1, r.why)
                          ELSE IF pid = SelfPid /\ ~config.dry_run
                          THEN Exit(137, "killed")
                          ELSE IF Tail(psout) = <<>> THEN Goto(3)
                          ELSE Goto(2)
             ELSE /\ UNCHANGED <<host, log, faulted, faults>>
                  /\ IF Tail(psout) = <<>> THEN Goto(3) ELSE Goto(2)
    /\ UNCHANGED <<cliopts, disk, config, euid, cmd, default_iface, routes,
                   vm_config, handle, child, waited, entry, prev>>

\* stop_microvm, lines 280-285
StopRemove ==
    /\ At("stop_microvm", 3)
    /\ IF Exists(host, config.socket_path)
       THEN /\ host' = Remove(host, config.socket_path)
            /\ log' = Append(log, Removed(config.socket_path))
       ELSE UNCHANGED <<host, log>>
    /\ Return
    /\ UNCHANGED <<cliopts, disk, config, euid, cmd, faulted, faults,
                   default_iface, routes, psout, vm_config, handle, child,
                   waited, entry, prev>>

(* ------------------------ VM process supervisor ------------------------ *)

\* lines 226-230: entries bound to "tap0" are rebound to config.tap_device
PatchConfig(ifaces) ==
    [i \in DOMAIN ifaces |->
        IF ifaces[i] = "tap0" /\ config.tap_device # "tap0"
        THEN config.tap_device ELSE ifaces[i]]

\* the check with the JSONDecodeError swallowed
LoadableLenient(file) == file.state # "missing"

\* lines 216 and 221-233: the file exists and json.load accepts it
Loadable(file) == file.state = "ok"

\* start_microvm, lines 215-233: the file is checked, parsed and patched
StartLoadConfig ==
    /\ At("start_microvm", 1)
    /\ \E file \in ConfigFiles :
         /\ disk' = file
         /\ IF Loadable(file)
            THEN /\ vm_config' = PatchConfig(file.ifaces)
                 /\ Goto(2)
            ELSE /\ Exit(1, "config")
                 /\ UNCHANGED vm_config
    /\ UNCHANGED <<cliopts, host, config, euid, cmd, faulted, faults,
                   default_iface, routes, psout, handle, child, waited, log,
                   entry, prev>>

\* the argument vector of line 238
LaunchCommand ==
    <<"firecracker --api-sock % --config-file vm-config.json",
      config.socket_path>>

\* what the launched process is given: its --api-sock argument, and the
\* document it reads from the file --config-file names
Launched(pid) ==
    [pid |-> pid, sock |-> config.socket_path, ifaces |-> disk.ifaces]

\* start_microvm, lines 237-241: Popen
StartSpawn ==
    /\ At("start_microvm", 2)
    /\ LET pid == Min(VmPids \ host.procs)
       IN /\ host' = [host EXCEPT !.procs = @ \cup {pid}]
          /\ handle' = pid
          /\ child' = Launched(pid)
          /\ log' = Append(log, Event("spawn", LaunchCommand, 0))
    /\ Goto(3)
    /\ UNCHANGED <<cliopts, disk, config, euid, cmd, faulted, faults,
                   default_iface, routes, psout, vm_config, waited, entry,
                   prev>>

Signalled(sig) == Event("signal", <<sig, ToString(handle)>>, 0)

\* the supervised process exits by itself
ChildExits ==
    /\ status = "running"
    /\ fn = "start_microvm"
    /\ step \in 3..5
    /\ handle \in host.procs
    /\ host' = [host EXCEPT !.procs = @ \ {handle}]
    /\ UNCHANGED <<cliopts, disk, config, euid, cmd, plan, status, fn, step,
                   exitCode, died, faulted, faults, default_iface, routes,
                   psout, vm_config, handle, child, waited, log, entry, prev>>

\* what communicate() reads from the pipes of a process that has exited
ChildOutput(pid) == "stdout and stderr of " \o ToString(pid)

\* lines 246-249: the failure printed with what the child wrote
StartFailure ==
    Event("report", <<"Firecracker failed to start: %", ChildOutput(handle)>>,
          1)

\* the poll taken for passed whatever has become of the process
StartPollBlind ==
    /\ At("start_microvm", 3)
    /\ Goto(4)
    /\ UNCHANGED <<cliopts, host, disk, config, euid, cmd, faulted, faults,
                   default_iface, routes, psout, vm_config, handle, child,
                   waited, log, entry, prev>>

\* start_microvm, lines 244-252: after the sleep the process is polled
StartPoll ==
    /\ At("start_microvm", 3)
    /\ IF handle \notin host.procs
       THEN /\ log' = Append(log, StartFailure)
            /\ Exit(1, "vmfailed")
       ELSE /\ UNCHANGED log
            /\ Goto(4)
    /\ UNCHANGED <<cliopts, host, disk, config, euid, cmd, faulted, faults,
                   default_iface, routes, psout, vm_config, handle, child,
                   waited, entry, prev>>

\* a wait that kills the process it is waiting for
StartWaitKills ==
    /\ At("start_microvm", 4)
    /\ handle \in host.procs
    /\ host' = [host EXCEPT !.procs = @ \ {handle}]
    /\ log' = Append(log, Signalled("SIGKILL %"))
    /\ Return
    /\ UNCHANGED <<cliopts, disk, config, euid, cmd, faulted, faults,
                   default_iface, routes, psout, vm_config, handle, child,
                   waited, entry, prev>>

\* line 256: wait() returns when the process has exited
StartWait ==
    /\ At("start_microvm", 4)
    /\ handle \notin host.procs
    /\ Return
    /\ UNCHANGED <<cliopts, host, disk, config, euid, cmd, faulted, faults,
                   default_iface, routes, psout, vm_config, handle, child,
                   waited, log, entry, prev>>

\* KeyboardInterrupt: caught only inside the try of lines 254-259, where
\* SIGTERM is sent to the child; anywhere else it ends the invocation
Interrupt ==
    /\ status = "running"
    /\ fn = "start_microvm"
    /\ step \in 3..5
    /\ IF step = 4
       THEN /\ log' = Append(log, Signalled("SIGTERM %"))
            /\ waited' = 0
            /\ Goto(5)
       ELSE /\ Exit(1, "interrupt")
            /\ waited' = 0
            /\ UNCHANGED log
    /\ UNCHANGED <<cliopts, host, disk, config, euid, cmd, faulted, faults,
                   default_iface, routes, psout, vm_config, handle, child,
                   entry, prev>>

\* line 261: wait(timeout=5) returns when the process has exited
StartGraceWait ==
    /\ At("start_microvm", 5)
    /\ handle \notin host.procs
    /\ waited' = 0
    /\ Return
    /\ UNCHANGED <<cliopts, host, disk, config, euid, cmd, faulted, faults,
                   default_iface, routes, psout, vm_config, handle, child,
                   log, entry, prev>>

\* a unit of the grace period passes
Tick ==
    /\ At("start_microvm", 5)
    /\ handle \in host.procs
    /\ waited < GracePeriod
    /\ waited' = waited + 1
    /\ UNCHANGED <<cliopts, host, disk, config, euid, cmd, plan, status, fn,
                   step, exitCode, died, faulted, faults, default_iface,
                   routes, psout, vm_config, handle, child, log, entry, prev>>

\* the kill issued as soon as SIGTERM has been sent, without the wait
StartKillAtOnce ==
    /\ At("start_microvm", 5)
    /\ handle \in host.procs
    /\ host' = [host EXCEPT !.procs = @ \ {handle}]
    /\ log' = Append(log, Signalled("SIGKILL %"))
    /\ waited' = 0
    /\ Return
    /\ UNCHANGED <<cliopts, disk, config, euid, cmd, faulted, faults,
                   default_iface, routes, psout, vm_config, handle, child,
                   entry, prev>>

\* lines 262-264: TimeoutExpired, the process is killed
StartKill ==
    /\ At("start_microvm", 5)
    /\ handle \in host.procs
    /\ waited = GracePeriod
    /\ host' = [host EXCEPT !.procs = @ \ {handle}]
    /\ log' = Append(log, Signalled("SIGKILL %"))
    /\ waited' = 0
    /\ Return
    /\ UNCHANGED <<cliopts, disk, config, euid, cmd, faulted, faults,
                   default_iface, routes, psout, vm_config, handle, child,
                   entry, prev>>

(* ------------------------------ Next ----------------------------------- *)

Next ==
    \/ \E c \in Commands, dry \in BOOLEAN, uid \in {0, 1000} :
         Invoke(c, dry, uid)
    \/ Finish
    \/ CheckRoot
    \/ SetupNetworking
    \/ CleanupNetworking
    \/ ActivateRemove
    \/ ActivateMkfifo
    \/ ActivateChmod
    \/ DeactivateSocket
    \/ StopList
    \/ StopScan
    \/ StopRemove
    \/ StartLoadConfig
    \/ StartSpawn
    \/ ChildExits
    \/ StartPoll
    \/ StartWait
    \/ Interrupt
    \/ StartGraceWait
    \/ Tick
    \/ StartKill

Spec == Init /\ [][Next]_vars

(* ------------------------------ claims --------------------------------- *)

IsKill(e) == e.c[1] = "kill -9 %"
IsNetRemoval(e) == e.f = "cleanup_networking"
IsChannelRemoval(e) == e.k = "remove"

\* C1: in every teardown each kill of a VM process comes before the first
\* network-removal command and each network-removal command before the
\* removal of the channel file, so the channel file that was present at
\* the start is still present while cleanup_networking runs.
C1_TeardownOrder ==
    cmd = "teardown" =>
      /\ \A i, j \in DOMAIN log :
           i < j =>
             /\ ~(IsNetRemoval(log[i]) /\ IsKill(log[j]))
             /\ ~(IsChannelRemoval(log[i]) /\ IsNetRemoval(log[j]))
      /\ (status = "running" /\ fn = "cleanup_networking"
            /\ Exists(entry, config.socket_path))
           => Exists(host, config.socket_path)

FnRank(f) ==
    CASE f = "setup_networking" -> 1
      [] f = "activate_socket" -> 2
      [] f = "start_microvm" -> 3
      [] OTHER -> 0

\* C2: setup works through network setup, channel activation and VM start
\* in that order, and whatever function the run is in or ended in, nothing
\* of a later function has been done: no command of it, no change of the
\* channel files before activation, no process before the start.
C2_SetupInOrder ==
    cmd = "setup" =>
      /\ \A i \in 1..(Len(log) - 1) :
           FnRank(log[i].f) <= FnRank(log[i + 1].f)
      /\ \A i \in DOMAIN log : FnRank(log[i].f) <= FnRank(fn)
      /\ FnRank(fn) < 2 => host.files = entry.files
      /\ FnRank(fn) < 3 => handle = 0 /\ host.procs = entry.procs
      /\ died # "" => status = "exited" /\ exitCode # 0

\* a setup that did the whole network setup and died activating the channel
C2_Witness ==
    /\ cmd = "setup"
    /\ status = "exited"
    /\ died = "command"
    /\ fn = "activate_socket"
    /\ Len(log) >= Len(SetupCommands(default_iface))
    /\ plan = <<"start_microvm">>

Reported == [i \in DOMAIN log |-> log[i].c]

\* the devices a default route of the model leaves through
Ifaces == {"eth0", "wlan0"}

\* what a bring-up that succeeds executes, in order
FullBringUp(iface) ==
    [i \in DOMAIN SetupCommands(iface) |-> SetupCommands(iface)[i].c]
    \o << <<"mkfifo %", config.socket_path>>,
          <<"chmod 660 %", config.socket_path>>,
          LaunchCommand >>

\* C3: a dry-run bring-up spawns nothing and reports exactly the commands
\* the real bring-up executes, in their order, up to the VM launch.
C3_DryRunReportsAll ==
    (cmd = "setup" /\ config.dry_run /\ euid = 0 /\ status = "exited") =>
      /\ \A i \in DOMAIN log : log[i].k = "dry"
      /\ \E iface \in Ifaces : Reported = FullBringUp(iface)

\* C4: the process launched from a file with an entry bound to tap0, under
\* a tap_device of another name, is given that entry bound to tap_device.
C4_LaunchGetsPatched ==
    (handle # 0 /\ config.tap_device # "tap0") =>
      /\ Len(child.ifaces) = Len(disk.ifaces)
      /\ \A i \in DOMAIN disk.ifaces :
           disk.ifaces[i] = "tap0" => child.ifaces[i] = config.tap_device

\* C5: with a configuration file that is missing or not JSON, start and
\* setup never hold a process handle nor spawn anything, and start_microvm
\* ends the invocation with a failure at its first step.
C5_BadConfigNoSpawn ==
    (cmd \in {"start", "setup"} /\ disk.state \in {"missing", "invalid"}) =>
      /\ handle = 0
      /\ child = NoChild
      /\ host.procs = entry.procs
      /\ \A i \in DOMAIN log : log[i].k # "spawn"
      /\ fn = "start_microvm" =>
           /\ step = 1
           /\ status = "exited" => exitCode = 1 /\ died = "config"

\* start has read a file that is not JSON and ended
C5_Witness ==
    /\ cmd = "start"
    /\ fn = "start_microvm"
    /\ status = "exited"
    /\ disk.state = "invalid"
    /\ died = "config"

\* C6: a run that ends on a configuration error leaves the channel files,
\* the interface, the chains and the forwarding flag as they were at entry.
C6_ConfigErrorNoSideEffect ==
    (status = "exited" /\ died = "config") =>
      /\ host.files = entry.files
      /\ host.tap = entry.tap /\ host.addr = entry.addr
      /\ host.nat = entry.nat /\ host.postrouting = entry.postrouting
      /\ host.fwd = entry.fwd /\ host.forward = entry.forward
      /\ host.ip_forward = entry.ip_forward

\* no interface, no chain, no jump to a chain
NetAbsent(h) ==
    /\ h.tap = "absent"
    /\ h.nat = -1 /\ h.postrouting = 0
    /\ h.fwd = -1 /\ h.forward = 0

\* C7: a net-down that comes right after a net-down ends without error and
\* leaves no interface, neither chain and no jump to them.
C7_CleanupTwice ==
    (cmd = "net-down" /\ prev = "net-down" /\ status = "exited"
       /\ euid = 0 /\ ~config.dry_run) =>
      /\ exitCode = 0 /\ died = ""
      /\ NetAbsent(host)

Net(h) ==
    <<h.tap, h.addr, h.ip_forward, h.nat, h.postrouting, h.fwd, h.forward>>

\* the clean host after the first k commands of setup_networking
RECURSIVE SetupPrefix(_)
SetupPrefix(k) ==
    IF k = 0 THEN CleanHost
    ELSE Exec(SetupCommandsFor(DefaultTapDevice, "eth0")[k].c,
              SetupPrefix(k - 1), RoutesWithDefault).h

SetupSteps == Len(SetupCommandsFor(DefaultTapDevice, "eth0"))

\* the network states setup_networking can leave of a clean host
PartialSetups == {Net(SetupPrefix(k)) : k \in 0..SetupSteps}

LeftBySetup(h) == Net(h) \in PartialSetups

CleanupLog == SelectSeq(log, IsNetRemoval)

CleanupOver ==
    \/ cmd = "net-down" /\ status = "exited"
    \/ cmd = "teardown" /\ fn = "deactivate_socket"

\* C8: on what one setup_networking run leaves of a clean host, whichever
\* step it stopped at, cleanup_networking with privileges, each of its
\* commands run by the host, never ends the invocation, executes its seven
\* commands whatever exit codes they return, and leaves no interface,
\* neither chain and no jump to them.
C8_CleanupUnwindsPartialSetup ==
    (cmd \in {"net-down", "teardown"} /\ euid = 0 /\ ~config.dry_run
       /\ LeftBySetup(entry) /\ ~faulted) =>
      /\ fn = "cleanup_networking" =>
           /\ died = "" /\ exitCode = 0
           /\ status = "running" =>
                Len(CleanupLog) = IF step = 0 THEN 0 ELSE step - 1
      /\ CleanupOver =>
           /\ [i \in DOMAIN CleanupLog |-> CleanupLog[i].c]
                = [i \in DOMAIN CleanupCommands |-> CleanupCommands[i].c]
           /\ \A i \in DOMAIN CleanupLog : CleanupLog[i].k = "exec"
           /\ NetAbsent(host)

\* net-down has run on an interface with address and forwarding but no
\* chain: its iptables commands returned non-zero and it went on
C8_Witness ==
    /\ cmd = "net-down" /\ status = "exited"
    /\ euid = 0 /\ ~config.dry_run
    /\ entry.tap = "up" /\ entry.addr /\ entry.nat = -1
    /\ LeftBySetup(entry)
    /\ \E i \in DOMAIN log : log[i].rc # 0
    /\ Len(CleanupLog) = Len(CleanupCommands)
    /\ NetAbsent(host)

\* C9: activate that meets no failure of the host ends with success and
\* leaves at the configured path a named pipe it has just made, mode 660,
\* whatever was there before, also right after an activate; no other file
\* is touched.
C9_ActivateLeavesFreshPipe ==
    (cmd = "activate" /\ status = "exited" /\ ~config.dry_run /\ ~faulted) =>
      /\ exitCode = 0 /\ died = ""
      /\ host.files[config.socket_path]
           = [kind |-> "fifo", mode |-> 660, fresh |-> TRUE]
      /\ \A p \in Paths \ {config.socket_path} :
           host.files[p] = entry.files[p]

\* activate has ended on a host where an activate had left its pipe
C9_Witness ==
    /\ cmd = "activate" /\ status = "exited"
    /\ ~config.dry_run /\ ~faulted
    /\ entry.files[config.socket_path]
         = [kind |-> "fifo", mode |-> 660, fresh |-> FALSE]
    /\ host.files[config.socket_path].fresh

\* C10: deactivate ends without error with the channel file absent, having
\* removed it exactly when it was there, and changes nothing else.
C10_DeactivateIdempotent ==
    (cmd = "deactivate" /\ status = "exited") =>
      /\ exitCode = 0 /\ died = ""
      /\ ~Exists(host, config.socket_path)
      /\ host = [entry EXCEPT !.files[config.socket_path] = NoFile]
      /\ log = IF Exists(entry, config.socket_path)
               THEN <<Removed(config.socket_path)>> ELSE <<>>

\* deactivate has ended on a host where an activate had left its pipe,
\* and has removed it
C10_Witness ==
    /\ cmd = "deactivate" /\ status = "exited"
    /\ entry.files[config.socket_path].kind = "fifo"
    /\ ~Exists(host, config.socket_path)
    /\ log = <<Removed(config.socket_path)>>

IsSigterm(e) == e.k = "signal" /\ e.c[1] = "SIGTERM %"
IsSigkill(e) == e.k = "signal" /\ e.c[1] = "SIGKILL %"

Sigterms == Len(SelectSeq(log, IsSigterm))
Sigkills == Len(SelectSeq(log, IsSigkill))

Supervising == status = "running" /\ fn = "start_microvm" /\ step = 4
GraceWaiting == status = "running" /\ fn = "start_microvm" /\ step = 5

\* C11: an interruption during foreground supervision sends the child one
\* SIGTERM and starts the grace wait; the grace wait that returns does so
\* either because the child has exited, with no kill issued, or because
\* the 5 units have passed with the child alive, with one SIGKILL issued
\* then; no invocation issues more than one of either signal.
C11_GracefulThenForced ==
    /\ [](Sigterms <= 1 /\ Sigkills <= Sigterms)
    /\ [](GraceWaiting => Sigterms = 1 /\ Sigkills = 0)
    /\ [][(Supervising /\ step' = 5) =>
            /\ log' = Append(log, Signalled("SIGTERM %"))
            /\ waited' = 0]_vars
    /\ [][(GraceWaiting /\ status' = "exited" /\ died' = "") =>
            IF handle \in host.procs
            THEN /\ waited = GracePeriod
                 /\ log' = Append(log, Signalled("SIGKILL %"))
                 /\ handle \notin host'.procs
            ELSE log' = log]_vars
    /\ [][(Sigkills' > Sigkills) =>
            GraceWaiting /\ waited = GracePeriod /\ handle \in host.procs]_vars

\* the child ignored SIGTERM for the whole grace period and was killed
C11_Witness ==
    /\ fn = "start_microvm" /\ status = "exited" /\ died = ""
    /\ Sigterms = 1 /\ Sigkills = 1
    /\ handle \notin host.procs

\* The clock of the grace wait advances and the supervisor, once it can
\* take its next step out of the wait, takes it.
FairSpec ==
    /\ Spec
    /\ WF_vars(Tick)
    /\ WF_vars(StartKill)
    /\ WF_vars(StartGraceWait)

Stopped ==
    /\ fn = "start_microvm" /\ status = "exited" /\ died = ""
    /\ handle \notin host.procs

\* C12: a supervisor that has been interrupted while running and is in the
\* grace wait eventually leaves it, and leaves it only by start_microvm
\* returning with the child gone.
C12_ShutdownCompletes ==
    /\ GraceWaiting ~> ~GraceWaiting
    /\ [][(GraceWaiting /\ ~GraceWaiting') => Stopped']_vars

Polling == status = "running" /\ fn = "start_microvm" /\ step = 3

\* C13: a poll that finds the spawned process gone reports the failure
\* with what the child wrote, ends the invocation with exit code 1 and
\* never goes on to supervision: no step of the wait is reached and the
\* child is sent no signal.
C13_EarlyExitIsStartFailure ==
    /\ [](died = "vmfailed" =>
            /\ status = "exited" /\ exitCode = 1
            /\ fn = "start_microvm" /\ step = 3
            /\ handle # 0 /\ handle \notin host.procs
            /\ log # <<>> /\ log[Len(log)] = StartFailure
            /\ Sigterms = 0 /\ Sigkills = 0)
    /\ []((fn = "start_microvm" /\ step \in {4, 5}) =>
            \A i \in DOMAIN log : log[i].k # "report")
    /\ [][(Polling /\ handle \notin host.procs
             /\ (status' # status \/ step' # step)) =>
            /\ status' = "exited"
            /\ died' \in {"vmfailed", "interrupt"}]_vars

\* start has ended on the failed poll
C13_Witness ==
    /\ cmd = "start" /\ status = "exited" /\ died = "vmfailed"
    /\ log[Len(log)] = StartFailure

\* C14: start and setup that find a channel file at the configured path
\* leave it as it is: activate_socket does nothing in that invocation.
C14_ExistingChannelKept ==
    (cmd \in {"setup", "start"} /\ Exists(entry, config.socket_path)) =>
      /\ host.files[config.socket_path] = entry.files[config.socket_path]
      /\ fn # "activate_socket"
      /\ \A i \in DOMAIN log : log[i].f # "activate_socket"

NeedsRoot == {"setup_networking", "cleanup_networking"}

\* C15: without root, setup_networking and cleanup_networking stop at the
\* privilege check, dry-run or not: they run and report no command, the
\* network is as at entry, and the invocation ends with exit code 1.
C15_UnprivilegedFailsFast ==
    (status # "idle" /\ fn \in NeedsRoot /\ euid # 0) =>
      /\ step = 0
      /\ \A i \in DOMAIN log : log[i].f \notin NeedsRoot
      /\ Net(host) = Net(entry)
      /\ status = "exited" => exitCode = 1 /\ died = "root"

\* net-down by an ordinary user, on a host where a network had been set up
C15_Witness ==
    /\ cmd = "net-down" /\ euid # 0
    /\ status = "exited" /\ died = "root"
    /\ host.tap = "up" /\ host.nat > 0
    /\ log = <<>>

IsRouteRead(e) == e.c[1] = "ip route" /\ e.k = "exec" /\ e.rc = 0
IsFirewall(e) == e.f = "setup_networking" /\ e.c[1] \notin
    {"ip tuntap add % mode tap", "ip link set % up",
     "ip addr add 192.168.1.1/24 dev %", "sysctl -w net.ipv4.ip_forward=1",
     "ip route"}
IsMasquerade(e) ==
    e.c[1] = "iptables -t nat -A FIRECRACKER-NAT -o % -j MASQUERADE"

RoutesRead == \E i \in DOMAIN log : IsRouteRead(log[i])

DefaultLines(lines) ==
    {i \in DOMAIN lines : \E j \in DOMAIN lines[i] : lines[i][j] = "default"}

\* the token after the first "dev" of the first line with "default"
FirstDefaultDev(lines) ==
    LET i == CHOOSE x \in DefaultLines(lines) :
                 \A y \in DefaultLines(lines) : x <= y
        j == CHOOSE x \in DOMAIN lines[i] :
                 /\ lines[i][x] = "dev"
                 /\ \A y \in 1..(x - 1) : lines[i][y] # "dev"
    IN lines[i][j + 1]

FirewallAsAtEntry ==
    /\ host.nat = entry.nat /\ host.postrouting = entry.postrouting
    /\ host.fwd = entry.fwd /\ host.forward = entry.forward

\* C16: once setup_networking has read the routes, a table without a
\* default route ends the invocation with exit code 1, no chain created
\* and no rule added; a table with one makes every masquerade rule of the
\* run name the device after "dev" on its first line with "default".
C16_DefaultRouteDecides ==
    /\ ((cmd \in {"net-up", "setup"} /\ ~config.dry_run /\ RoutesRead) =>
          IF DefaultLines(routes) = {}
          THEN /\ status = "exited" /\ exitCode = 1 /\ died = "noroute"
               /\ fn = "setup_networking"
               /\ FirewallAsAtEntry
               /\ \A i \in DOMAIN log : ~IsFirewall(log[i])
          ELSE /\ died # "noroute"
               /\ default_iface = FirstDefaultDev(routes)
               /\ \A i \in DOMAIN log :
                    IsMasquerade(log[i]) =>
                      log[i].c[2] = FirstDefaultDev(routes))
    /\ (died = "noroute" =>
          /\ status = "exited" /\ exitCode = 1
          /\ FirewallAsAtEntry
          /\ \A i \in DOMAIN log : ~IsFirewall(log[i]))

\* net-up has ended on a table without a default route
C16_Witness ==
    /\ cmd = "net-up" /\ ~config.dry_run
    /\ status = "exited" /\ died = "noroute"
    /\ routes = RoutesNoDefault

\* the masquerade rule has been added for the first of two default routes
C16_WitnessFirst ==
    /\ cmd = "net-up" /\ ~config.dry_run
    /\ routes = RoutesTwoDefaults
    /\ default_iface = "wlan0"
    /\ \E i \in DOMAIN log : IsMasquerade(log[i])

\* the command lines the callers pass with check=False
TolerantTexts ==
    LET setup == SetupCommandsFor(DefaultTapDevice, "eth0")
        cleanup == CleanupCommandsFor(DefaultTapDevice)
    IN {setup[i].c[1] : i \in {j \in DOMAIN setup : ~setup[j].check}}
       \cup {cleanup[i].c[1] :
                i \in {j \in DOMAIN cleanup : ~cleanup[j].check}}
       \cup {"kill -9 %"}

Executed(e) == e.k = "exec"
FailedRequired(e) ==
    Executed(e) /\ e.rc # 0 /\ e.c[1] \notin TolerantTexts
FailedTolerated(e) ==
    Executed(e) /\ e.rc # 0 /\ e.c[1] \in TolerantTexts

\* C17: a command that exits non-zero under check=True is the last thing
\* its invocation does, which ends with exit code 1; an invocation ends on
\* a failed command in no other case; after a command that exits zero, or
\* non-zero under check=False, the caller is not terminated for it and
\* goes on to its next step or returns.
C17_CheckDecidesAbort ==
    /\ [](\A i \in DOMAIN log :
            FailedRequired(log[i]) =>
              /\ i = Len(log)
              /\ status = "exited" /\ exitCode = 1 /\ died = "command")
    /\ [](died = "command" => log # <<>> /\ FailedRequired(log[Len(log)]))
    /\ [][(/\ Len(log') = Len(log) + 1
           /\ Executed(log'[Len(log')])
           /\ ~FailedRequired(log'[Len(log')])) =>
            /\ died' # "command"
            /\ died' = "" =>
                 \/ status' = "exited" /\ exitCode' = 0
                 \/ status' = "running"
                    /\ <<fn, step, psout>>' # <<fn, step, psout>>]_vars

\* a tolerated failure was followed by more commands, and a required
\* command that failed then ended the invocation
C17_Witness ==
    /\ status = "exited" /\ exitCode = 1 /\ died = "command"
    /\ \E i \in 1..(Len(log) - 1) : FailedTolerated(log[i])
    /\ FailedRequired(log[Len(log)])

\* C18: a stop that runs for real and whose `ps aux` succeeds has, once it
\* is past its loop, killed every process of the host whose line shows
\* both "firecracker" and the configured channel path and no other, and
\* removes the channel file only after the last kill.
C18_StopKillsAllMatches ==
    (fn = "stop_microvm" /\ ~config.dry_run /\ ~faulted
       /\ (status = "exited" \/ step = 3)) =>
      /\ \A pid \in entry.procs :
           IF Matches(pid) THEN pid \notin host.procs
           ELSE pid \in host.procs
      /\ \A i, j \in DOMAIN log :
           (IsChannelRemoval(log[i]) /\ IsKill(log[j])) => j < i

Resource(f) ==
    CASE f \in {"setup_networking", "cleanup_networking"} -> "network"
      [] f \in {"activate_socket", "deactivate_socket"} -> "channel"
      [] f \in {"start_microvm", "stop_microvm"} -> "process"

\* the resources the running command has still to deal with, in order
ResourcesAhead == [i \in 1..(Len(plan) + 1) |->
                     Resource((<<fn>> \o plan)[i])]

IsSuffix(s, t) ==
    /\ Len(s) <= Len(t)
    /\ \A i \in DOMAIN s : s[i] = t[Len(t) - Len(s) + i]

Reverse(s) == [i \in DOMAIN s |-> s[Len(s) + 1 - i]]

BringUpOrder == <<"network", "channel", "process">>
TearDownOrder == <<"process", "network", "channel">>

\* C19 as stated: teardown deals with the resources in the reverse of the
\* order in which setup establishes them.
C19_TeardownIsReverse ==
    /\ (cmd = "setup" /\ status = "running") =>
         IsSuffix(ResourcesAhead, BringUpOrder)
    /\ (cmd = "teardown" /\ status = "running") =>
         IsSuffix(ResourcesAhead, Reverse(BringUpOrder))

\* C19: setup establishes network, channel, process in that order, and
\* teardown deals with process, network, channel in that order, which
\* mirrors setup only in that the process goes first; teardown's commands
\* and removals are logged by its functions in that order.
C19_TeardownOrder ==
    /\ (cmd = "setup" /\ status = "running") =>
         IsSuffix(ResourcesAhead, BringUpOrder)
    /\ (cmd = "teardown" /\ status = "running") =>
         IsSuffix(ResourcesAhead, TearDownOrder)
    /\ cmd = "teardown" =>
         \A i \in 1..(Len(log) - 1) :
           log[i].f = "cleanup_networking" =>
             log[i + 1].f \in {"cleanup_networking", "deactivate_socket"}
    /\ TearDownOrder # Reverse(BringUpOrder)

\* teardown has stopped the process and cleaned the network up, and has
\* the channel left to deal with
C19_Witness ==
    /\ cmd = "teardown" /\ status = "running"
    /\ fn = "deactivate_socket"
    /\ \E i \in DOMAIN log : log[i].f = "stop_microvm"
    /\ \E i \in DOMAIN log : log[i].f = "cleanup_networking"

\* the network one successful setup_networking makes of a clean host
FullSetup == SetupPrefix(SetupSteps)

\* C20: a cleanup_networking that runs for real, with privileges, on the
\* network one successful setup_networking made of a clean host leaves
\* every component as it was before that setup: interface, address, both
\* chains, their rules and the forwarding flag.
C20_CleanupRestoresAll ==
    (cmd = "net-down" /\ status = "exited" /\ euid = 0 /\ ~config.dry_run
       /\ Net(entry) = Net(FullSetup)) =>
      Net(host) = Net(CleanHost)

\* the host after the logged events happened one after another to host h:
\* a command that exited 0 had its effect, one that failed or was only
\* reported had none
RECURSIVE Replay(_, _)
Replay(h, events) ==
    IF events = <<>> THEN h
    ELSE LET e == Head(events)
             after == CASE e.k = "exec" /\ e.rc = 0 ->
                               Exec(e.c, h, NoRoutes).h
                        [] e.k = "remove" -> Remove(h, e.c[2])
                        [] OTHER -> h
         IN Replay(after, Tail(events))

BringUp == {"net-up", "setup"}

Aborted == status = "exited" /\ died # ""

Undoing == {"cleanup_networking", "deactivate_socket", "stop_microvm"}

RemovalTexts ==
    {CleanupCommandsFor(DefaultTapDevice)[i].c[1] :
         i \in 1..Len(CleanupCommandsFor(DefaultTapDevice))}

\* C21: there is no rollback.  When net-up or the composite setup aborts,
\* the network and the files of the host are exactly what the steps that
\* ran before the failing one left, and the failing run has issued no
\* command of the tear-down functions nor any interface or chain removal.
C21_NoRollback ==
    (cmd \in BringUp /\ Aborted) =>
        /\ Net(host) = Net(Replay(entry, log))
        /\ host.files = Replay(entry, log).files
        /\ \A i \in 1..Len(log) :
               /\ log[i].f \notin Undoing
               /\ log[i].c[1] \notin RemovalTexts

\* net-up aborted after the interface and the forwarding flag were set and
\* before any chain was made: the interface stays up, the flag stays 1
C21_Witness ==
    /\ cmd = "net-up" /\ Aborted /\ ~config.dry_run
    /\ fn = "setup_networking"
    /\ entry.tap = "absent" /\ entry.ip_forward = 0
    /\ host.tap = "up" /\ host.addr /\ host.ip_forward = 1
    /\ host.nat = -1 /\ host.fwd = -1

\* the order of network setup: create the interface, bring it up, assign
\* the address, enable forwarding, read the routes, create the NAT chain,
\* add the masquerade rule, splice into POSTROUTING, create the forward
\* chain, add the two accept rules, splice into FORWARD
FixedOrder ==
    << "ip tuntap add % mode tap",
       "ip link set % up",
       "ip addr add 192.168.1.1/24 dev %",
       "sysctl -w net.ipv4.ip_forward=1",
       "ip route",
       "iptables -t nat -N FIRECRACKER-NAT",
       "iptables -t nat -A FIRECRACKER-NAT -o % -j MASQUERADE",
       "iptables -t nat -A POSTROUTING -j FIRECRACKER-NAT",
       "iptables -N FIRECRACKER-FORWARD",
       "iptables -A FIRECRACKER-FORWARD -i % -j ACCEPT",
       "iptables -A FIRECRACKER-FORWARD -o % -j ACCEPT",
       "iptables -A FORWARD -j FIRECRACKER-FORWARD" >>

\* interface creation, address assignment and the two chain creations
ToleratedSteps == {1, 3, 6, 9}

\* the command ran and exited non-zero
ExitedNonZero(e) == e.k = "exec" /\ e.rc # 0

InSetupNetworking ==
    cmd \in BringUp /\ fn = "setup_networking" /\ ~config.dry_run

\* C22: setup_networking issues its commands in the fixed order; when
\* interface creation, address assignment or a chain creation exits
\* non-zero the run goes on with the next step, and when any other step
\* exits non-zero the run aborts there.
C22_SetupOrderAndTolerance ==
    /\ [](InSetupNetworking =>
            /\ Len(log) <= Len(FixedOrder)
            /\ \A i \in DOMAIN log :
                 /\ log[i].c[1] = FixedOrder[i]
                 /\ (ExitedNonZero(log[i]) /\ i \notin ToleratedSteps) =>
                      /\ i = Len(log)
                      /\ status = "exited" /\ exitCode = 1
                 /\ (ExitedNonZero(log[i]) /\ i \in ToleratedSteps
                       /\ i = Len(log)) =>
                      status = "running" /\ step = i + 1)
    /\ [][(InSetupNetworking /\ Len(log') = Len(log) + 1
             /\ ExitedNonZero(log'[Len(log')])
             /\ Len(log') \in ToleratedSteps) =>
            status' = "running"]_vars
    /\ [][(InSetupNetworking /\ status = "running" /\ fn' = fn
             /\ Len(log) < Len(FixedOrder)
             /\ log # <<>> /\ ExitedNonZero(log[Len(log)])
             /\ <<status, step, log>>' # <<status, step, log>>) =>
            /\ Len(log') = Len(log) + 1
            /\ log'[Len(log')].c[1] = FixedOrder[Len(log')]]_vars

\* a second net-up: interface creation, address assignment and both chain
\* creations exited non-zero and all twelve commands were still issued
C22_Witness ==
    /\ cmd = "net-up" /\ ~config.dry_run
    /\ status = "exited" /\ died = ""
    /\ Len(log) = Len(FixedOrder)
    /\ \A i \in ToleratedSteps : ExitedNonZero(log[i])

\* a net-up that a failing step other than those four ended
C22_WitnessAbort ==
    /\ cmd = "net-up" /\ ~config.dry_run
    /\ status = "exited" /\ died = "command"
    /\ \E i \in ToleratedSteps : i < Len(log) /\ ExitedNonZero(log[i])
    /\ Len(log) \notin ToleratedSteps
    /\ ExitedNonZero(log[Len(log)])

\* the functions whose every step is one run_command call
CommandOnly == {"setup_networking", "cleanup_networking"}

\* the step appends the event of one run_command call
CallsRunCommand ==
    /\ Len(log') = Len(log) + 1
    /\ log'[Len(log')].k \in {"exec", "dry"}

\* C23: under dry-run every run_command call, required or tolerated,
\* capturing or not, executes nothing: the host is as before the call, the
\* command is reported, and the result is exit code 0 with empty output,
\* so that no run_command call ends the invocation as a failed command.
C23_DryRunCommandIsMock ==
    /\ [](config.dry_run =>
            /\ \A i \in DOMAIN log : log[i].k # "exec"
            /\ \A i \in DOMAIN log : log[i].k = "dry" => log[i].rc = 0
            /\ died # "command")
    /\ [][(config.dry_run /\ CallsRunCommand) =>
            /\ host' = host
            /\ log'[Len(log')].c[1] = "ip route" => routes' = NoOut
            /\ log'[Len(log')].c[1] = "ps aux" => psout' = NoOut]_vars
    /\ [][(config.dry_run /\ status = "running" /\ fn \in CommandOnly
             /\ step > 0 /\ <<status, step>>' # <<status, step>>) =>
            /\ CallsRunCommand
            /\ log'[Len(log')].k = "dry"]_vars

\* a dry-run net-up reported a tolerated and a required command and the
\* capturing `ip route`, which gave it no route to parse
C23_Witness ==
    /\ cmd = "net-up" /\ config.dry_run
    /\ status = "exited" /\ died = "noroute"
    /\ Len(log) = RouteStep
    /\ \A i \in DOMAIN log : log[i].k = "dry"
    /\ routes = NoOut
    /\ host = entry

IsSignal(e) == e.k = "signal"

Signals == Len(SelectSeq(log, IsSignal))

\* C24: start_microvm signals its child only after an interruption.  While
\* it polls or supervises, no signal has been sent; a signal is sent only
\* by the step that takes the interruption or, in the grace wait that only
\* that step enters, by the forced kill; and supervision turns into the
\* grace wait by the interruption alone.
C24_SignalOnlyAfterInterrupt ==
    /\ []((Polling \/ Supervising) => Signals = 0)
    /\ [][(Signals' > Signals) =>
            \/ Supervising /\ Interrupt
            \/ GraceWaiting /\ Sigterms = 1]_vars
    /\ [][(~GraceWaiting /\ GraceWaiting') =>
            Supervising /\ Interrupt]_vars
    /\ [][(Supervising /\ ~Supervising' /\ ~Interrupt) =>
            /\ status' = "exited" \/ fn' # fn
            /\ handle \notin host.procs
            /\ log' = log]_vars

\* the interruption has come during supervision: the child, still alive,
\* has been sent its one SIGTERM and the grace wait is on
C24_Witness ==
    /\ GraceWaiting
    /\ handle \in host.procs
    /\ Sigterms = 1 /\ Sigkills = 0
    /\ waited > 0

IsNotFound(e) == e.k = "notfound"

\* C25: a command whose executable is not found is treated as a command
\* that failed: under check=False the caller goes on, so that a net-down
\* that got as far as cleanup_networking has issued every one of its
\* commands, and under check=True the invocation ends with exit code 1.
C25_MissingExecutableIsFailure ==
    /\ \A i \in DOMAIN log :
         IsNotFound(log[i]) =>
           IF log[i].c[1] \in TolerantTexts
           THEN died = ""
           ELSE status = "exited" /\ exitCode = 1
    /\ (cmd = "net-down" /\ status = "exited" /\ log # <<>>) =>
         Len(log) = Len(CleanupCommands)

\* C26: an interruption that comes after the VM process has been spawned
\* gets the child a termination signal: start_microvm is never ended by an
\* interruption with the spawned child alive and no signal sent to it.
C26_InterruptReachesChild ==
    (fn = "start_microvm" /\ status = "exited" /\ died = "interrupt"
       /\ handle \in host.procs) =>
      Signals >= 1

\* stop_microvm of this invocation is behind
StopOver ==
    /\ cmd \in {"stop", "teardown"}
    /\ fn # "stop_microvm" \/ status = "exited"

\* C27: whatever processes the listing shows, the invocation's own
\* among them, a stop whose commands the host does not fail gets to the
\* removal of the channel file and leaves no file at the channel path, and
\* no stop ever executes kill -9 on the pid of its own process.
C27_StopSparesItself ==
    /\ (StopOver /\ ~faulted) =>
         /\ ~Exists(host, config.socket_path)
         /\ fn = "stop_microvm" => died = "" /\ exitCode = 0
    /\ \A i \in DOMAIN log :
         (IsKill(log[i]) /\ Executed(log[i])) =>
           log[i].c[2] # ToString(SelfPid)

ChannelCommands == {"activate", "deactivate", "stop"}

\* C28: under dry-run, activate_socket, deactivate_socket and stop_microvm
\* leave the channel file as it was: at every point of such an invocation
\* the files of the host are those it started with.
C28_DryRunKeepsChannel ==
    (config.dry_run /\ cmd \in ChannelCommands /\ status # "idle") =>
      host.files = entry.files

\* C29: when a start that runs for real spawns the VM process, a channel
\* file exists at the configured channel path, the path the process is
\* given as its API socket.
C29_SpawnHasChannel ==
    [][(cmd = "start" /\ ~config.dry_run
          /\ handle' # handle /\ handle' # 0) =>
         Exists(host, config.socket_path)]_vars

\* the network n setup_networking runs that all succeeded have made of a
\* clean host: each run appended its four rules again
AfterSetups(h, n) ==
    /\ h.tap = "up" /\ h.addr /\ h.ip_forward = 1
    /\ h.nat = n /\ h.postrouting = n
    /\ h.fwd = 2 * n /\ h.forward = n

\* C30: after any number n >= 1 of successful setup_networking runs, one
\* cleanup_networking run for real, with privileges and every command run
\* by the host, leaves no jump to FIRECRACKER-NAT in POSTROUTING, no jump
\* to FIRECRACKER-FORWARD in FORWARD, and neither chain.
C30_OneCleanupAfterManySetups ==
    (cmd = "net-down" /\ status = "exited" /\ euid = 0
       /\ ~config.dry_run /\ ~faulted
       /\ \E n \in 1..MaxSetups : AfterSetups(entry, n)) =>
      /\ host.postrouting = 0 /\ host.forward = 0
      /\ host.nat = -1 /\ host.fwd = -1

=============================================================================
